---------------------------- MODULE Spec2Model ----------------------------
(***************************************************************************)
(* A model of introspect (src/index.ts): a script that reads the table and *)
(* column catalog of a PostgreSQL public schema, builds one TypeScript     *)
(* interface per table plus an aggregate Database interface, prints them,  *)
(* formats the text with prettier and writes it to schema.d.ts.            *)
(*                                                                         *)
(* Identifiers that the script transforms or compares character by         *)
(* character (table and column names) are sequences of one-character       *)
(* strings; type names, which the script only compares whole, are strings. *)
(***************************************************************************)
EXTENDS Integers, Sequences, FiniteSets, TLC

\* ------------------------------------------------------------------ bounds

\* Most base tables the catalog lists.
MaxTables == 2
\* Most rows the column query returns.
MaxColumns == 2

\* ------------------------------------------------------------- the catalog

\* Relations (base tables or views) that may exist in the public schema.
SchemaNames ==
    { <<"a", "_", "b">>,
      <<"a", "B">>,
      <<"d", "a", "t", "a", "b", "a", "s", "e">> }

\* The runs of the script against one catalog snapshot: a first, and a second
\* to compare it with.
Runs == { 1, 2 }

ColumnNames == { <<"i", "d">>, <<"x">> }

\* information_schema.columns.is_nullable is the text 'YES' or 'NO'.
NullableFlags == { "YES", "NO" }

\* Values of information_schema.columns.data_type: every label of the switch
\* in getTypeNode, and some the switch has no case for.
DataTypes ==
    { "character varying", "text", "bigint", "character",
      "integer", "smallint", "numeric", "decimal", "real", "double precision",
      "boolean", "date", "json", "jsonb", "uuid",
      "timestamp with time zone", "timestamp without time zone",
      "USER-DEFINED", "ARRAY", "bytea", "Text" }

\* Values of information_schema.columns.udt_name: the four that getTypeNode
\* tests first, and some it does not.
UdtNames ==
    { "uuid", "timestamptz", "timestamp", "citext",
      "int4", "int8", "text", "jsonb", "point", "_text", "UUID" }

\* The (data_type, udt_name, is_nullable) combinations of the columns in the
\* catalogs of the pipeline specification.
TypeCases ==
    { [data_type |-> "integer",      udt_name |-> "int4",  is_nullable |-> "YES"],
      [data_type |-> "jsonb",        udt_name |-> "jsonb", is_nullable |-> "NO"],
      [data_type |-> "USER-DEFINED", udt_name |-> "point", is_nullable |-> "YES"] }

Column(t, c, d, u, n) ==
    [table_name |-> t, column_name |-> c, data_type |-> d, udt_name |-> u,
     is_nullable |-> n]

Table(t) == [table_name |-> t]

\* Code points of the characters used in names (ORDER BY compares by them
\* under the C collation).
CharCode(c) ==
    CASE c = "A" -> 65 [] c = "B" -> 66 [] c = "D" -> 68 [] c = "E" -> 69
      [] c = "S" -> 83 [] c = "T" -> 84 [] c = "_" -> 95
      [] c = "a" -> 97 [] c = "b" -> 98 [] c = "d" -> 100 [] c = "e" -> 101
      [] c = "i" -> 105 [] c = "s" -> 115 [] c = "t" -> 116 [] c = "x" -> 120

RECURSIVE NameLess(_, _)
NameLess(a, b) ==
    IF b = <<>> THEN FALSE
    ELSE IF a = <<>> THEN TRUE
    ELSE IF CharCode(Head(a)) # CharCode(Head(b))
         THEN CharCode(Head(a)) < CharCode(Head(b))
    ELSE NameLess(Tail(a), Tail(b))

SeqsUpTo(S, n) == UNION { [1..k -> S] : k \in 0..n }

\* Result sets of the table query: distinct names, ORDER BY table_name.
TableLists(names, n) ==
    { s \in SeqsUpTo({ Table(t) : t \in names }, n) :
        \A i \in 1..(Len(s) - 1) : NameLess(s[i].table_name, s[i + 1].table_name) }

\* Result sets of the column query: ORDER BY table_name, ordinal_position;
\* a relation has no two columns of the same name.
ColumnLists(cols, n) ==
    { s \in SeqsUpTo(cols, n) :
        /\ \A i \in 1..(Len(s) - 1) :
              \/ s[i].table_name = s[i + 1].table_name
              \/ NameLess(s[i].table_name, s[i + 1].table_name)
        /\ \A i, j \in 1..Len(s) :
              (i # j /\ s[i].table_name = s[j].table_name)
                  => s[i].column_name # s[j].column_name }

PipelineColumns ==
    { Column(t, c, k.data_type, k.udt_name, k.is_nullable) :
        t \in SchemaNames, c \in ColumnNames, k \in TypeCases }

\* ------------------------------------------------------------ type mapping

Keyword(kind) == [kind |-> kind, types |-> <<>>, typeName |-> <<>>]

NullLiteral == [kind |-> "NullKeyword", types |-> <<>>, typeName |-> <<>>]

UnionType(members) == [kind |-> "UnionType", types |-> members, typeName |-> <<>>]

TypeReference(name) == [kind |-> "TypeReference", types |-> <<>>, typeName |-> name]

\* The switch on dataType: the base type node, and the console.warn line of
\* the default branch.
DataTypeCase(dataType, udtName) ==
    LET known(kind) == [baseType |-> Keyword(kind), warn |-> <<>>]
    IN  CASE dataType \in { "character varying", "text", "bigint", "character" }
               -> known("StringKeyword")
          [] dataType \in { "integer", "smallint", "numeric", "decimal", "real",
                            "double precision" }
               -> known("NumberKeyword")
          [] dataType = "boolean" -> known("BooleanKeyword")
          [] dataType = "date" -> known("StringKeyword")
          [] dataType \in { "json", "jsonb" } -> known("UnknownKeyword")
          [] dataType = "uuid" -> known("StringKeyword")
          [] OTHER ->
               [baseType |-> Keyword("UnknownKeyword"),
                warn |-> << [dataType |-> dataType, udtName |-> udtName] >>]

\* A slip in the order of the rules: the switch on dataType is consulted
\* first, udtName only when the switch has no case.
BaseTypeDeclaredFirst(dataType, udtName) ==
    IF DataTypeCase(dataType, udtName).warn = <<>>
    THEN DataTypeCase(dataType, udtName)
    ELSE IF udtName \in { "uuid", "timestamptz", "timestamp", "citext" }
         THEN [baseType |-> Keyword("StringKeyword"), warn |-> <<>>]
    ELSE DataTypeCase(dataType, udtName)

\* let baseType: the udtName tests first, then the switch.
BaseType(dataType, udtName) ==
    IF udtName = "uuid"
    THEN [baseType |-> Keyword("StringKeyword"), warn |-> <<>>]
    ELSE IF udtName = "timestamptz" \/ udtName = "timestamp"
         THEN [baseType |-> Keyword("StringKeyword"), warn |-> <<>>]
    ELSE IF udtName = "citext"
         THEN [baseType |-> Keyword("StringKeyword"), warn |-> <<>>]
    ELSE DataTypeCase(dataType, udtName)

\* A slip in the nullable branch: the union is never built.
GetTypeNodeNeverNull(dataType, udtName, isNullable) ==
    [node |-> BaseType(dataType, udtName).baseType,
     warn |-> BaseType(dataType, udtName).warn]

\* getTypeNode: the node returned, and the console.warn lines the call emits.
GetTypeNode(dataType, udtName, isNullable) ==
    [node |-> IF isNullable
              THEN UnionType(<< BaseType(dataType, udtName).baseType,
                                NullLiteral >>)
              ELSE BaseType(dataType, udtName).baseType,
     warn |-> BaseType(dataType, udtName).warn]

\* ------------------------------------------------------------ toPascalCase

\* String.prototype.toUpperCase on one character.
ToUpperCase(c) ==
    CASE c = "a" -> "A" [] c = "b" -> "B" [] c = "d" -> "D" [] c = "e" -> "E"
      [] c = "i" -> "I" [] c = "s" -> "S" [] c = "t" -> "T" [] c = "x" -> "X"
      [] OTHER -> c

\* str.split("_"): the segments between underscores, empty ones kept.
RECURSIVE Split(_)
Split(str) ==
    IF str = <<>> THEN << <<>> >>
    ELSE LET rest == Split(Tail(str))
         IN  IF Head(str) = "_" THEN << <<>> >> \o rest
             ELSE << <<Head(str)>> \o Head(rest) >> \o Tail(rest)

\* word.charAt(0).toUpperCase() + word.slice(1)
Capitalize(word) ==
    IF word = <<>> THEN <<>> ELSE << ToUpperCase(Head(word)) >> \o Tail(word)

RECURSIVE Join(_)
Join(words) ==
    IF words = <<>> THEN <<>> ELSE Head(words) \o Join(Tail(words))

ToPascalCase(str) ==
    Join([i \in 1..Len(Split(str)) |-> Capitalize(Split(str)[i])])


\* ---------------------------------------------------- building declarations

\* A slip in the grouping loop: unshift in place of push.
RECURSIVE GroupColumnsUnshift(_, _)
GroupColumnsUnshift(map, cols) ==
    IF cols = <<>> THEN map
    ELSE LET column == Head(cols)
             withKey == IF column.table_name \in DOMAIN map THEN map
                        ELSE map @@ (column.table_name :> <<>>)
         IN  GroupColumnsUnshift(
                 [withKey EXCEPT ![column.table_name] = << column >> \o @],
                 Tail(cols))

\* The loop that fills the Map tableColumns: has / set / get(...).push.
RECURSIVE GroupColumns(_, _)
GroupColumns(map, cols) ==
    IF cols = <<>> THEN map
    ELSE LET column == Head(cols)
             withKey == IF column.table_name \in DOMAIN map THEN map
                        ELSE map @@ (column.table_name :> <<>>)
         IN  GroupColumns(
                 [withKey EXCEPT ![column.table_name] = Append(@, column)],
                 Tail(cols))

\* A slip in the lookup: the Map is searched by interface name, so the
\* columns of any relation whose name has the same PascalCase are found.
ColsOfByInterfaceName(map, tableName) ==
    LET same == { k \in DOMAIN map : ToPascalCase(k) = ToPascalCase(tableName) }
    IN  IF same = {} THEN <<>> ELSE map[CHOOSE k \in same : TRUE]

\* tableColumns.get(tableName) || []
ColsOf(map, tableName) ==
    IF tableName \in DOMAIN map THEN map[tableName] ELSE <<>>

\* cols.map(col => createPropertySignature(col.column_name, getTypeNode(...)))
Properties(cols) ==
    [i \in 1..Len(cols) |->
        [name |-> cols[i].column_name,
         type |-> GetTypeNode(cols[i].data_type, cols[i].udt_name,
                              cols[i].is_nullable = "YES").node]]

\* A slip in the warning: it is keyed on the resulting node being unknown,
\* so json and jsonb columns warn as well.
RECURSIVE WarningsForUnknown(_)
WarningsForUnknown(cols) ==
    IF cols = <<>> THEN <<>>
    ELSE (IF BaseType(Head(cols).data_type, Head(cols).udt_name).baseType
                 = Keyword("UnknownKeyword")
          THEN << [dataType |-> Head(cols).data_type,
                   udtName |-> Head(cols).udt_name] >>
          ELSE <<>>)
         \o WarningsForUnknown(Tail(cols))

\* The console.warn lines of the getTypeNode calls made for cols, in order.
RECURSIVE Warnings(_)
Warnings(cols) ==
    IF cols = <<>> THEN <<>>
    ELSE GetTypeNode(Head(cols).data_type, Head(cols).udt_name,
                     Head(cols).is_nullable = "YES").warn
         \o Warnings(Tail(cols))

\* createInterfaceDeclaration([export], toPascalCase(tableName), properties)
InterfaceDecl(tableName, cols) ==
    [name |-> ToPascalCase(tableName), members |-> Properties(cols)]

\* The columns each iteration of the loop over tables reads, per table.
ColsPerTable(tbls, map) ==
    [i \in 1..Len(tbls) |-> ColsOf(map, tbls[i].table_name)]

RECURSIVE Flatten(_)
Flatten(seqs) ==
    IF seqs = <<>> THEN <<>> ELSE Head(seqs) \o Flatten(Tail(seqs))

\* A slip in the aggregate: the PascalCased name is used as the key too.
DatabasePropertiesPascalKey(tbls) ==
    [i \in 1..Len(tbls) |->
        [name |-> ToPascalCase(tbls[i].table_name),
         type |-> TypeReference(ToPascalCase(tbls[i].table_name))]]

\* tables.map(table => createPropertySignature(table.table_name,
\*                         createTypeReferenceNode(toPascalCase(...))))
DatabaseProperties(tbls) ==
    [i \in 1..Len(tbls) |->
        [name |-> tbls[i].table_name,
         type |-> TypeReference(ToPascalCase(tbls[i].table_name))]]

DatabaseName == <<"D", "a", "t", "a", "b", "a", "s", "e">>

\* createInterfaceDeclaration([export], "Database", databaseProperties)
DatabaseInterface(tbls) ==
    [name |-> DatabaseName, members |-> DatabaseProperties(tbls)]

\* A slip in the assembly: the aggregate is left out.
AllDeclarationsWithoutDatabase(decls, database) == decls

\* [...interfaceDeclarations, databaseInterface]
AllDeclarations(decls, database) == decls \o << database >>

\* ------------------------------------------------------ printing the text

Token(sym) == [sym |-> sym, id |-> <<>>]

\* The printer's text of a type node, as tokens.
RECURSIVE PrintType(_)
PrintType(node) ==
    CASE node.kind = "StringKeyword" -> << Token("string") >>
      [] node.kind = "NumberKeyword" -> << Token("number") >>
      [] node.kind = "BooleanKeyword" -> << Token("boolean") >>
      [] node.kind = "UnknownKeyword" -> << Token("unknown") >>
      [] node.kind = "NullKeyword" -> << Token("null") >>
      [] node.kind = "TypeReference" -> << [sym |-> "ref", id |-> node.typeName] >>
      [] node.kind = "UnionType" ->
           IF node.types = <<>> THEN <<>>
           ELSE PrintType(Head(node.types))
                \o (IF Tail(node.types) = <<>> THEN <<>>
                    ELSE << Token("|") >>
                         \o PrintType(UnionType(Tail(node.types))))

Line(indent, text, name, type) ==
    [indent |-> indent, text |-> text, name |-> name, type |-> type]

\* One exported interface: its opening line, a line per member, the brace.
PrintDeclaration(decl) ==
    << Line(0, "export interface", decl.name, <<>>) >>
    \o [i \in 1..Len(decl.members) |->
           Line(4, "member", decl.members[i].name,
                PrintType(decl.members[i].type))]
    \o << Line(0, "}", <<>>, <<>>) >>

\* printer.printFile(sourceFile)
PrintFile(decls) ==
    Flatten([i \in 1..Len(decls) |-> PrintDeclaration(decls[i])])

\* The template literal: the two header comment lines, then the code.
Header(timestamp, code) ==
    [timestamp |-> timestamp,
     notice |-> "DO NOT EDIT - This file is auto-generated",
     code |-> code]

TabWidth == 2

\* prettier.format(..., {parser: "typescript", tabWidth: 2, ...}): comments
\* are kept, nested lines are indented by tabWidth.
PrettierFormat(text) ==
    [text EXCEPT !.code =
        [i \in 1..Len(text.code) |->
            [text.code[i] EXCEPT !.indent = IF @ > 0 THEN TabWidth ELSE 0]]]

NoDecl == [name |-> <<>>, members |-> <<>>]

NoText == [timestamp |-> 0, notice |-> "", code |-> <<>>]

\* ------------------------------------------------------------------ state

VARIABLES
    dbTables,              \* the base tables of the public schema, as queried
    dbColumns,             \* the columns of the public schema, as queried
    file,                  \* schema.d.ts: <<>> when absent, else <<its text>>
    now,                   \* the clock new Date() reads
    run,                   \* which run of the script this is
    pc,                    \* the statement the script is at
    tables,
    columns,
    tableColumns,
    interfaceDeclarations,
    databaseInterface,
    allDeclarations,
    generatedCode,
    unformattedOutput,
    formattedOutput,
    warnings,              \* the console.warn lines of this run
    mappedColumns,         \* the columns passed to getTypeNode in this run
    writes,                \* the Bun.write calls of this run that resolved
    stages,                \* the statements this run has completed, in order
    outputs                \* the texts written by the runs so far

vars ==
    << dbTables, dbColumns, file, now, run, pc, tables, columns, tableColumns,
       interfaceDeclarations, databaseInterface, allDeclarations,
       generatedCode, unformattedOutput, formattedOutput, warnings,
       mappedColumns, writes, stages, outputs >>

catalog == << dbTables, dbColumns >>

locals ==
    << tables, columns, tableColumns, interfaceDeclarations, databaseInterface,
       allDeclarations, generatedCode, unformattedOutput, formattedOutput,
       warnings, mappedColumns, writes >>

\* The module-level bindings of a process that has just started.
Fresh ==
    /\ pc = "fetchTables"
    /\ tables = <<>>
    /\ columns = <<>>
    /\ tableColumns = <<>>
    /\ interfaceDeclarations = <<>>
    /\ databaseInterface = NoDecl
    /\ allDeclarations = <<>>
    /\ generatedCode = <<>>
    /\ unformattedOutput = NoText
    /\ formattedOutput = NoText
    /\ warnings = <<>>
    /\ mappedColumns = <<>>
    /\ writes = 0
    /\ stages = <<>>

FirstRun ==
    /\ file = <<>>
    /\ now = 1
    /\ run = 1
    /\ outputs = <<>>
    /\ Fresh

\* Catalogs of several relations, with columns of a few types.
PipelineCatalog ==
    /\ dbTables \in TableLists(SchemaNames, MaxTables)
    /\ dbColumns \in ColumnLists(PipelineColumns, MaxColumns)

\* A catalog of one table with one column of any declared and storage type.
MapperColumns ==
    { Column(<<"a", "_", "b">>, <<"x">>, d, u, n) :
        d \in DataTypes, u \in UdtNames, n \in NullableFlags }

MapperCatalog ==
    /\ dbTables = << Table(<<"a", "_", "b">>) >>
    /\ dbColumns \in ColumnLists(MapperColumns, 1)

Init ==
    /\ PipelineCatalog \/ MapperCatalog
    /\ FirstRun

\* ---------------------------------------------------------------- actions

\* const tables = await sql`SELECT table_name ... ORDER BY table_name`
FetchTables ==
    /\ pc = "fetchTables"
    /\ stages' = Append(stages, "fetchTables")
    /\ tables' = dbTables
    /\ pc' = "fetchColumns"
    /\ UNCHANGED << catalog, file, now, run, outputs, columns, tableColumns,
                    interfaceDeclarations, databaseInterface, allDeclarations,
                    generatedCode, unformattedOutput, formattedOutput,
                    warnings, mappedColumns, writes >>

\* const columns = await sql`SELECT ... ORDER BY table_name, ordinal_position`
FetchColumns ==
    /\ pc = "fetchColumns"
    /\ stages' = Append(stages, "fetchColumns")
    /\ columns' = dbColumns
    /\ pc' = "group"
    /\ UNCHANGED << catalog, file, now, run, outputs, tables, tableColumns,
                    interfaceDeclarations, databaseInterface, allDeclarations,
                    generatedCode, unformattedOutput, formattedOutput,
                    warnings, mappedColumns, writes >>

\* Either query rejects: the top-level await throws and the process exits.
QueryFails ==
    /\ pc \in { "fetchTables", "fetchColumns" }
    /\ pc' = "failed"
    /\ UNCHANGED << catalog, file, now, run, outputs, locals, stages >>

\* for (const column of columns) { ... tableColumns ... }
Group ==
    /\ pc = "group"
    /\ stages' = Append(stages, "group")
    /\ tableColumns' = GroupColumns(<<>>, columns)
    /\ pc' = "build"
    /\ UNCHANGED << catalog, file, now, run, outputs, tables, columns,
                    interfaceDeclarations, databaseInterface, allDeclarations,
                    generatedCode, unformattedOutput, formattedOutput,
                    warnings, mappedColumns, writes >>

\* for (const table of tables) { ... interfaceDeclarations.push(...) }
BuildInterfaces ==
    /\ pc = "build"
    /\ stages' = Append(stages, "build")
    /\ LET perTable == ColsPerTable(tables, tableColumns)
       IN  /\ interfaceDeclarations' =
                 [i \in 1..Len(tables) |->
                     InterfaceDecl(tables[i].table_name, perTable[i])]
           /\ mappedColumns' = Flatten(perTable)
           /\ warnings' = Warnings(Flatten(perTable))
    /\ pc' = "database"
    /\ UNCHANGED << catalog, file, now, run, outputs, tables, columns,
                    tableColumns, databaseInterface, allDeclarations,
                    generatedCode, unformattedOutput, formattedOutput, writes >>

\* databaseProperties, databaseInterface, allDeclarations
BuildDatabase ==
    /\ pc = "database"
    /\ stages' = Append(stages, "database")
    /\ databaseInterface' = DatabaseInterface(tables)
    /\ allDeclarations' =
           AllDeclarations(interfaceDeclarations, DatabaseInterface(tables))
    /\ pc' = "print"
    /\ UNCHANGED << catalog, file, now, run, outputs, tables, columns,
                    tableColumns, interfaceDeclarations, generatedCode,
                    unformattedOutput, formattedOutput, warnings,
                    mappedColumns, writes >>

\* sourceFile, printer.printFile, and the header with new Date().toISOString()
Render ==
    /\ pc = "print"
    /\ stages' = Append(stages, "render")
    /\ generatedCode' = PrintFile(allDeclarations)
    /\ unformattedOutput' = Header(now, PrintFile(allDeclarations))
    /\ pc' = "format"
    /\ UNCHANGED << catalog, file, now, run, outputs, tables, columns,
                    tableColumns, interfaceDeclarations, databaseInterface,
                    allDeclarations, formattedOutput, warnings, mappedColumns,
                    writes >>

\* const formattedOutput = await prettier.format(unformattedOutput, {...})
Format ==
    /\ pc = "format"
    /\ stages' = Append(stages, "format")
    /\ formattedOutput' = PrettierFormat(unformattedOutput)
    /\ pc' = "write"
    /\ UNCHANGED << catalog, file, now, run, outputs, tables, columns,
                    tableColumns, interfaceDeclarations, databaseInterface,
                    allDeclarations, generatedCode, unformattedOutput,
                    warnings, mappedColumns, writes >>

\* A slip in error handling: when prettier rejects, the unformatted text is
\* written as a fallback before the process exits.
FormatFailsWritesUnformatted ==
    /\ pc = "format"
    /\ file' = << unformattedOutput >>
    /\ pc' = "failed"
    /\ UNCHANGED << catalog, now, run, outputs, locals, stages >>

\* prettier.format rejects: the process exits before Bun.write is reached.
FormatFails ==
    /\ pc = "format"
    /\ pc' = "failed"
    /\ UNCHANGED << catalog, file, now, run, outputs, locals, stages >>

\* A slip in the write: the text is appended to the file's prior content.
WriteAppends ==
    /\ pc = "write"
    /\ stages' = Append(stages, "write")
    /\ LET prior == IF file = <<>> THEN <<>> ELSE file[1].code
           text == [formattedOutput EXCEPT !.code = prior \o @]
       IN  /\ file' = << text >>
           /\ outputs' = Append(outputs, text)
    /\ writes' = writes + 1
    /\ pc' = "done"
    /\ UNCHANGED << catalog, now, run, tables, columns, tableColumns,
                    interfaceDeclarations, databaseInterface, allDeclarations,
                    generatedCode, unformattedOutput, formattedOutput,
                    warnings, mappedColumns >>

\* await Bun.write("schema.d.ts", formattedOutput), then the success log.
Write ==
    /\ pc = "write"
    /\ stages' = Append(stages, "write")
    /\ file' = << formattedOutput >>
    /\ writes' = writes + 1
    /\ outputs' = Append(outputs, formattedOutput)
    /\ pc' = "done"
    /\ UNCHANGED << catalog, now, run, tables, columns, tableColumns,
                    interfaceDeclarations, databaseInterface, allDeclarations,
                    generatedCode, unformattedOutput, formattedOutput,
                    warnings, mappedColumns >>

\* Bun.write rejects (taken here to leave the file as it was).
WriteFails ==
    /\ pc = "write"
    /\ pc' = "failed"
    /\ UNCHANGED << catalog, file, now, run, outputs, locals, stages >>

\* The operator runs `bun index.ts` again, later, on the same catalog.
StartRun ==
    /\ pc \in { "done", "failed" }
    /\ run + 1 \in Runs
    /\ run' = run + 1
    /\ now' = now + 1
    /\ pc' = "fetchTables"
    /\ tables' = <<>>
    /\ columns' = <<>>
    /\ tableColumns' = <<>>
    /\ interfaceDeclarations' = <<>>
    /\ databaseInterface' = NoDecl
    /\ allDeclarations' = <<>>
    /\ generatedCode' = <<>>
    /\ unformattedOutput' = NoText
    /\ formattedOutput' = NoText
    /\ warnings' = <<>>
    /\ mappedColumns' = <<>>
    /\ writes' = 0
    /\ stages' = <<>>
    /\ UNCHANGED << catalog, file, outputs >>

Next ==
    \/ FetchTables
    \/ FetchColumns
    \/ QueryFails
    \/ Group
    \/ BuildInterfaces
    \/ BuildDatabase
    \/ Render
    \/ Format
    \/ FormatFails
    \/ Write
    \/ WriteFails
    \/ StartRun

Spec == Init /\ [][Next]_vars


\* ------------------------------------------------------------- properties

\* The interfaces of this run have been built.
AfterBuild == pc \in { "database", "print", "format", "write", "done" }

\* The aggregate and the declaration list of this run have been built.
AfterDatabase == pc \in { "print", "format", "write", "done" }

TableNames == { tables[i].table_name : i \in 1..Len(tables) }

\* The fetched columns of one relation, in fetched order.
ColumnsOfTable(t) == SelectSeq(columns, LAMBDA c : c.table_name = t)

\* The fetched columns of the listed tables, table by table.
ListedColumns ==
    Flatten([i \in 1..Len(tables) |-> ColumnsOfTable(tables[i].table_name)])

\* The rule table of the type mapping, as the specification states it.
IdentityStringUdts == { "uuid", "timestamptz", "timestamp", "citext" }

StringTypes == { "character varying", "text", "bigint", "character", "date", "uuid" }

NumberTypes == { "integer", "smallint", "numeric", "decimal", "real",
                 "double precision" }

JsonTypes == { "json", "jsonb" }

ExpectedBase(declaredType, storageType) ==
    IF storageType \in IdentityStringUdts THEN "StringKeyword"
    ELSE IF declaredType \in StringTypes THEN "StringKeyword"
    ELSE IF declaredType \in NumberTypes THEN "NumberKeyword"
    ELSE IF declaredType = "boolean" THEN "BooleanKeyword"
    ELSE "UnknownKeyword"

\* A column no rule recognises.
Unrecognised(c) ==
    /\ c.udt_name \notin IdentityStringUdts
    /\ c.data_type \notin (StringTypes \cup NumberTypes \cup JsonTypes \cup { "boolean" })

\* The base type of a node: the non-null member of a union, else the node.
BaseOf(node) == IF node.kind = "UnionType" THEN node.types[1] ELSE node

HasNull(node) ==
    \/ node.kind = "NullKeyword"
    \/ \E k \in 1..Len(node.types) : node.types[k].kind = "NullKeyword"

\* A union with its null members removed; a union of one member is the member.
StripNull(node) ==
    LET rest == SelectSeq(node.types, LAMBDA m : m.kind # "NullKeyword")
    IN  IF Len(rest) = 1 THEN rest[1] ELSE UnionType(rest)

\* The statements that come before the write, in order.
StagesBeforeWrite ==
    << "fetchTables", "fetchColumns", "group", "build", "database", "render",
       "format" >>

\* A run that failed did not fail while building the interfaces (the step
\* that calls getTypeNode): it had not reached it, or had completed it.
BuildDidNotFail ==
    pc = "failed" => stages # SubSeq(StagesBeforeWrite, 1, 3)

\* The type node of field j of the interface of table i.
FieldType(i, j) == interfaceDeclarations[i].members[j].type

\* C1: for every (declaredType, storageType, nullable), getTypeNode does not
\* fail and gives each column one node whose base type follows the ordered
\* rules: a rule-1 storage type gives string whatever the declared type;
\* otherwise the declared type decides, and any other declared type gives
\* unknown.
C1_TypeMappingRules ==
    /\ BuildDidNotFail
    /\ AfterBuild =>
         \A i \in 1..Len(tables) :
            LET cols == ColumnsOfTable(tables[i].table_name)
            IN  /\ Len(interfaceDeclarations[i].members) = Len(cols)
                /\ \A j \in 1..Len(cols) :
                      BaseOf(FieldType(i, j))
                          = Keyword(ExpectedBase(cols[j].data_type,
                                                 cols[j].udt_name))

\* C1's case: a rule-1 storage type under a declared type that would map to
\* number, and an unlisted declared type, both mapped.
C1_Witness ==
    /\ AfterBuild
    /\ Len(columns) = 1
    /\ Len(interfaceDeclarations) = 1
    /\ columns[1].data_type = "integer"
    /\ columns[1].udt_name = "citext"
    /\ columns[1].is_nullable = "YES"
    /\ BaseOf(FieldType(1, 1)) = Keyword("StringKeyword")

\* C2: a non-nullable column's node has no null member; a nullable column's
\* node is a union that includes null, and without its null member it is the
\* node getTypeNode returns for the same types with nullable = false.
C2_NullabilityWrapping ==
    AfterBuild =>
       \A i \in 1..Len(tables) :
          LET cols == ColumnsOfTable(tables[i].table_name)
          IN  \A j \in 1..Len(interfaceDeclarations[i].members) :
                 LET plain == GetTypeNode(cols[j].data_type, cols[j].udt_name,
                                          FALSE).node
                 IN  /\ ~HasNull(plain)
                     /\ cols[j].is_nullable # "YES" =>
                           /\ ~HasNull(FieldType(i, j))
                           /\ FieldType(i, j) = plain
                     /\ cols[j].is_nullable = "YES" =>
                           /\ FieldType(i, j).kind = "UnionType"
                           /\ HasNull(FieldType(i, j))
                           /\ StripNull(FieldType(i, j)) = plain

\* C2's case: a nullable column mapped to a union with null.
C2_Witness ==
    /\ AfterBuild
    /\ Len(columns) = 1
    /\ Len(interfaceDeclarations) = 1
    /\ columns[1].is_nullable = "YES"
    /\ columns[1].data_type = "boolean"
    /\ FieldType(1, 1) = UnionType(<< Keyword("BooleanKeyword"), NullLiteral >>)

\* C3: the fields of the interface of each listed table are exactly the
\* fetched columns of that table, one field per column, in fetched order; a
\* table with no columns gets an interface with no fields, and building
\* does not fail.
C3_FieldsAreTableColumns ==
    /\ BuildDidNotFail
    /\ AfterBuild =>
         /\ Len(interfaceDeclarations) = Len(tables)
         /\ \A i \in 1..Len(tables) :
               LET cols == ColumnsOfTable(tables[i].table_name)
                   members == interfaceDeclarations[i].members
               IN  /\ Len(members) = Len(cols)
                   /\ \A j \in 1..Len(cols) :
                         /\ members[j].name = cols[j].column_name
                         /\ members[j].type =
                               GetTypeNode(cols[j].data_type, cols[j].udt_name,
                                           cols[j].is_nullable = "YES").node

\* C3's case: a finished run with a table of two columns and a table of none.
C3_Witness ==
    /\ pc = "done"
    /\ Len(tables) = 2
    /\ \E i, k \in 1..2 :
          /\ Len(interfaceDeclarations[i].members) = 2
          /\ interfaceDeclarations[i].members[1].name
                 # interfaceDeclarations[i].members[2].name
          /\ interfaceDeclarations[k].members = <<>>

\* C4: every fetched table has one generated interface, the Database
\* declaration has one field per table, and the declarations are the
\* interfaces and the Database declaration; with no tables the output holds
\* the Database declaration alone, with no fields.
C4_Completeness ==
    /\ AfterBuild =>
         /\ Len(interfaceDeclarations) = Len(tables)
         /\ \A i \in 1..Len(tables) :
               interfaceDeclarations[i].name = ToPascalCase(tables[i].table_name)
    /\ AfterDatabase =>
         /\ Len(databaseInterface.members) = Len(tables)
         /\ Len(allDeclarations) = Len(tables) + 1
         /\ \A i \in 1..Len(tables) : allDeclarations[i] = interfaceDeclarations[i]
         /\ tables = <<>> =>
               allDeclarations = << [name |-> DatabaseName, members |-> <<>>] >>
    /\ (pc = "done" /\ tables = <<>>) =>
         file = << [timestamp |-> now,
                    notice |-> "DO NOT EDIT - This file is auto-generated",
                    code |-> << Line(0, "export interface", DatabaseName, <<>>),
                                Line(0, "}", <<>>, <<>>) >>] >>

\* C4's case: a run on a catalog with no base table (and a view's column)
\* that completed.
C4_Witness ==
    /\ pc = "done"
    /\ tables = <<>>
    /\ columns # <<>>
    /\ writes = 1
    /\ Len(allDeclarations) = 1

\* C5: one Database declaration is built per run and it is the last
\* declaration; its i-th field has the i-th table's original name as key and
\* references toPascalCase of that name, the name of the i-th interface.
C5_DatabaseDeclaration ==
    AfterDatabase =>
       /\ allDeclarations # <<>>
       /\ allDeclarations[Len(allDeclarations)] = databaseInterface
       /\ Cardinality({ i \in 1..Len(allDeclarations) :
                           allDeclarations[i] = databaseInterface }) = 1
       /\ databaseInterface.name = DatabaseName
       /\ Len(databaseInterface.members) = Len(tables)
       /\ \A i \in 1..Len(tables) :
             /\ databaseInterface.members[i].name = tables[i].table_name
             /\ databaseInterface.members[i].type
                    = TypeReference(ToPascalCase(tables[i].table_name))
             /\ databaseInterface.members[i].type.typeName
                    = interfaceDeclarations[i].name

\* C5's case: a finished run over two tables whose interface names differ
\* from the table names.
C5_Witness ==
    /\ pc = "done"
    /\ Len(tables) = 2
    /\ Len(databaseInterface.members) = 2
    /\ \A i \in 1..2 :
          databaseInterface.members[i].name # interfaceDeclarations[i].name

\* C6: the texts that the runs on one catalog snapshot write are identical
\* except for the header timestamp.
C6_Determinism ==
    \A i, j \in 1..Len(outputs) :
       [outputs[i] EXCEPT !.timestamp = 0] = [outputs[j] EXCEPT !.timestamp = 0]

\* C6's case: two runs that wrote, at different times, a text with fields.
C6_Witness ==
    /\ Len(outputs) = 2
    /\ outputs[1].timestamp # outputs[2].timestamp
    /\ Len(outputs[1].code) > 4
    /\ warnings # <<>>

\* C7: the file changes only by the one write of a run, made after the
\* queries, the building, the rendering and the formatting completed in that
\* order, and it then holds the formatted text; a run that fails leaves the
\* file as it was and does not resume.
C7_WriteOnceAfterAllStages ==
    [][ /\ writes' <= 1
        /\ file' # file =>
              /\ pc = "write" /\ pc' = "done"
              /\ stages = StagesBeforeWrite
              /\ writes = 0 /\ writes' = 1
              /\ file' = << PrettierFormat(unformattedOutput) >>
              /\ unformattedOutput = Header(now, PrintFile(allDeclarations))
              /\ tables = dbTables /\ columns = dbColumns
        /\ pc' = "failed" => (file' = file /\ writes' = 0)
        /\ pc = "failed" => (pc' = "fetchTables" /\ run' = run + 1 /\ file' = file)
      ]_vars

\* C7's case: a second run that failed at the write or the formatting, with
\* the file still holding what the first run wrote.
C7_Witness ==
    /\ pc = "failed"
    /\ run = 2
    /\ stages = StagesBeforeWrite \/ stages = SubSeq(StagesBeforeWrite, 1, 6)
    /\ Len(outputs) = 1
    /\ file = << outputs[1] >>

\* C8: the interface names of distinct tables are distinct, and none is the
\* name of the aggregate declaration.
C8_InterfaceNamesDistinct ==
    AfterBuild =>
       /\ \A i, j \in 1..Len(interfaceDeclarations) :
             i # j => interfaceDeclarations[i].name # interfaceDeclarations[j].name
       /\ \A i \in 1..Len(interfaceDeclarations) :
             interfaceDeclarations[i].name # DatabaseName

\* C9: the warnings of a run are one per column of a listed table that no
\* rule recognises, naming its (declaredType, storageType); such a column's
\* field is emitted with the unknown type; building never fails; json and
\* jsonb columns, also unknown, do not warn.
C9_UnknownTypeWarnings ==
    /\ BuildDidNotFail
    /\ AfterBuild =>
         /\ warnings =
               [k \in 1..Len(SelectSeq(ListedColumns, Unrecognised)) |->
                   [dataType |-> SelectSeq(ListedColumns, Unrecognised)[k].data_type,
                    udtName |-> SelectSeq(ListedColumns, Unrecognised)[k].udt_name]]
         /\ \A i \in 1..Len(tables) :
               LET cols == ColumnsOfTable(tables[i].table_name)
               IN  /\ Len(interfaceDeclarations[i].members) = Len(cols)
                   /\ \A j \in 1..Len(cols) :
                         Unrecognised(cols[j]) =>
                            BaseOf(FieldType(i, j)) = Keyword("UnknownKeyword")
    /\ pc = "done" =>
         \A i \in 1..Len(tables) :
            \A j \in 1..Len(interfaceDeclarations[i].members) :
               \E n \in 1..Len(file[1].code) :
                  /\ file[1].code[n].text = "member"
                  /\ file[1].code[n].name = interfaceDeclarations[i].members[j].name
                  /\ file[1].code[n].type = PrintType(FieldType(i, j))

\* C9's case: a finished run over a table with a jsonb column and a column of
\* an unrecognised type: one warning, both fields unknown.
C9_Witness ==
    /\ pc = "done"
    /\ writes = 1
    /\ Len(tables) = 1
    /\ Len(ListedColumns) = 2
    /\ ListedColumns[1].data_type = "jsonb"
    /\ ListedColumns[2].data_type = "USER-DEFINED"
    /\ warnings = << [dataType |-> "USER-DEFINED", udtName |-> "point"] >>
    /\ BaseOf(FieldType(1, 1)) = Keyword("UnknownKeyword")
    /\ BaseOf(FieldType(1, 2)) = Keyword("UnknownKeyword")

\* The number of fields of all the interfaces of this run.
FieldCount == Len(Flatten([i \in 1..Len(interfaceDeclarations) |->
                              interfaceDeclarations[i].members]))

\* C10: a fetched column whose table_name is not a listed table gives no
\* interface, no field, no Database entry and no warning: the columns that
\* reach getTypeNode are the columns of the listed tables.
C10_ViewColumnsIgnored ==
    /\ AfterBuild =>
         /\ mappedColumns = ListedColumns
         /\ \A k \in 1..Len(mappedColumns) :
               mappedColumns[k].table_name \in TableNames
         /\ Len(interfaceDeclarations) = Len(tables)
         /\ FieldCount = Len(ListedColumns)
         /\ Len(warnings) = Len(SelectSeq(ListedColumns, Unrecognised))
    /\ AfterDatabase =>
         \A i \in 1..Len(databaseInterface.members) :
            databaseInterface.members[i].name \in TableNames

\* C10's case: a finished run over a listed table with a column, and a view
\* with a column of an unrecognised type.
C10_Witness ==
    /\ pc = "done"
    /\ Len(tables) = 1
    /\ Len(columns) = 2
    /\ Len(mappedColumns) = 1
    /\ \E k \in 1..2 :
          /\ columns[k].table_name \notin TableNames
          /\ Unrecognised(columns[k])
    /\ warnings = <<>>

=============================================================================
